---- MODULE Spec2Model ----
(***************************************************************************)
(* Model of src/src/anl/anl2024/runner.py: the divide-the-pie scenario     *)
(* generator make_scenarios (with its helper onein) and the log-path       *)
(* selection and generator call of anl2024_tournament.                     *)
(*                                                                         *)
(* Python floats are modelled as binary floating-point numbers with        *)
(* Precision significant bits and round-to-nearest-even, stored as integer *)
(* multiples of the unit 1/One.  Every arithmetic operation of the source  *)
(* rounds its exact result, as IEEE-754 arithmetic does.                   *)
(***************************************************************************)
EXTENDS Integers, Sequences, FiniteSets, TLC

\* ---------------------------------------------------------------- bounds
MaxScenarios == 2
MaxOutcomes == 3
WideOutcomes == 11
Precision == 4
FracBits == 10

\* ------------------------------------------------------- float arithmetic
One == 2 ^ FracBits
M == 2 ^ Precision

Abs(x) == IF x < 0 THEN 0 - x ELSE x
Sign(x) == IF x < 0 THEN 0 - 1 ELSE 1
Min(a, b) == IF a < b THEN a ELSE b

\* The spacing of the floats around num/den (in units): the least power of
\* two s with num/den < M * s.
RECURSIVE Spacing(_, _, _)
Spacing(num, den, s) ==
    IF num < M * s * den THEN s ELSE Spacing(num, den, 2 * s)

\* num/d rounded to the nearest integer, ties to the even one.
RoundNearestEven(num, d) ==
    LET q == num \div d
        r == num % d
    IN IF 2 * r < d THEN q
       ELSE IF 2 * r > d THEN q + 1
       ELSE IF q % 2 = 0 THEN q ELSE q + 1

\* The float nearest to the exact rational num/den (num >= 0, den > 0).
RoundRat(num, den) ==
    LET s == Spacing(num, den, 1)
    IN RoundNearestEven(num, den * s) * s

FAdd(x, y) == Sign(x + y) * RoundRat(Abs(x + y), 1)
FSub(x, y) == Sign(x - y) * RoundRat(Abs(x - y), 1)
FMul(x, y) == Sign(x) * Sign(y) * RoundRat(Abs(x) * Abs(y), One)
\* int / int (true division of two non-negative ints, j > 0)
FDiv(i, j) == RoundRat(i * One, j)

\* 1e-8 of line 77, scaled to the model's precision: a float several
\* spacings-at-one wide, far smaller than the ranges.
Eps == One \div 8
\* 0.499999 of line 56: the largest float below 0.5 at the base precision.
DefaultHigh == (One \div 2) - (One \div 32)

\* ------------------------------------------------ the process-wide generator
\* State of the `random` module's generator, one of M states; a call to
\* random.random() or random.randint() advances it once.
GenStates == 0 .. (M - 1)
random_advance(g) == (5 * g + 3) % M
\* random.random(): a float k / 2^Precision in [0, 1)
random_random(g) == random_advance(g) * (One \div M)
\* random.randint(a, b), a <= b: both endpoints included
randint_excl(a, b, g) == a + ((b - a + 2) * random_advance(g)) \div M
randint(a, b, g) == a + ((b - a + 1) * random_advance(g)) \div M

RECURSIVE Stream(_, _)
\* the generator state after j advances from g
Stream(g, j) == IF j = 0 THEN g ELSE Stream(random_advance(g), j - 1)

\* ------------------------------------------------------------ strings
Digits == <<"0", "1", "2", "3", "4", "5", "6", "7", "8", "9">>

RECURSIVE IntToStr(_)
\* str(i) for i >= 0, as a sequence of characters
IntToStr(i) ==
    IF i < 10 THEN <<Digits[i + 1]>>
    ELSE IntToStr(i \div 10) \o <<Digits[(i % 10) + 1]>>

DigitValue(c) == CHOOSE d \in 0 .. 9 : Digits[d + 1] = c

RECURSIVE ParseInt(_)
\* int(s) for a non-empty sequence of decimal digits
ParseInt(s) ==
    IF Len(s) = 1 THEN DigitValue(s[1])
    ELSE 10 * ParseInt(SubSeq(s, 1, Len(s) - 1)) + DigitValue(s[Len(s)])

RECURSIVE Split(_, _)
\* s.split(sep) for a one-character separator
Split(s, sep) ==
    IF \A p \in 1 .. Len(s) : s[p] # sep THEN <<s>>
    ELSE LET p == CHOOSE q \in 1 .. Len(s) :
                      s[q] = sep /\ \A t \in 1 .. (q - 1) : s[t] # sep
         IN <<SubSeq(s, 1, p - 1)>> \o Split(SubSeq(s, p + 1, Len(s)), sep)

\* f"{i}_{n-1 - i}"
Label(i, n) == IntToStr(i) \o <<"_">> \o IntToStr(n - 1 - i)

\* --------------------------------------------------------------- inputs
None == "<None>"
\* n_outcomes: int | tuple[int, int]
IntSpec(v) == [kind |-> "int", lo |-> v, hi |-> v]
TupleSpec(a, b) == [kind |-> "tuple", lo |-> a, hi |-> b]
OutcomeCounts == (1 .. MaxOutcomes) \cup {WideOutcomes}
NOutcomesValues ==
    {IntSpec(v) : v \in OutcomeCounts}
        \cup {TupleSpec(a, b) : a \in 1 .. MaxOutcomes, b \in 1 .. MaxOutcomes}
NScenariosValues == 1 .. MaxScenarios

\* default of the reserved_ranges keyword (line 56)
DefaultReservedRanges == <<<<0, DefaultHigh>>, <<0, DefaultHigh>>>>
ReservedRangesValues ==
    { DefaultReservedRanges,
      <<<<One \div 2, One>>, <<0, One \div 2>>>>,
      <<<<One \div 4, (3 * One) \div 4>>, <<One, 2 * One>>>>,
      <<<<One \div 2, One \div 4>>, <<0, DefaultHigh>>>>,
      <<<<0, DefaultHigh>>, <<One \div 4, One \div 4>>>>,
      <<<<0, Eps>>, <<0, DefaultHigh>>>>,
      <<<<0, DefaultHigh>>>>,
      <<>>,
      <<<<0, DefaultHigh>>, <<0, DefaultHigh>>, <<0, One>>>> }

\* DEFAULT_TOURNAMENT_PATH (line 40), a path as its sequence of components
DEFAULT_TOURNAMENT_PATH == <<"~", "negmas", "anl2024", "tournaments">>
BasePathValues == {<<None>>, <<"tmp", "runs">>}
NameValues == {None, "", "final"}
\* names unique_name("anl") may return: fresh, so none of NameValues
UniqueNames == {"anl.u1", "anl.u2"}

\* ---------------------------------------------------------------- state
VARIABLES
    pc,              \* position inside make_scenarios
    args,            \* arguments of the running make_scenarios call
    gen,             \* state of the process-wide random generator
    gen0,            \* its state when make_scenarios was entered
    draws,           \* the draws make_scenarios made so far, in order
    n,               \* line 61
    issues,          \* line 62: the labels of the "portions" issue
    ufun_sets,       \* line 65: the tuples finished so far
    ufuns,           \* the tuple being built for scenario Len(ufun_sets)
    result,          \* the returned list of scenarios
    exc,             \* the exception that ended the call, or None
    tpc,             \* position inside anl2024_tournament
    targs,           \* arguments of the running anl2024_tournament call
    path,            \* lines 148-153
    generator_calls, \* calls of scenario_generator made so far
    cartesian_call   \* arguments handed to cartesian_tournament

vars == <<pc, args, gen, gen0, draws, n, issues, ufun_sets, ufuns, result, exc,
          tpc, targs, path, generator_calls, cartesian_call>>
msvars == <<pc, args, gen, gen0, draws, n, issues, ufun_sets, ufuns, result, exc>>
tvars == <<tpc, targs, path, generator_calls, cartesian_call>>

NoArgs == [n_scenarios |-> 0, n_outcomes |-> IntSpec(0), reserved_ranges |-> <<>>]
NoTArgs == [n_scenarios |-> 0, n_outcomes |-> IntSpec(0), nologs |-> FALSE,
            base_path |-> <<None>>, name |-> None]

Init ==
    /\ pc = "idle"
    /\ args = NoArgs
    /\ gen \in GenStates
    /\ gen0 = gen
    /\ draws = <<>>
    /\ n = 0
    /\ issues = <<>>
    /\ ufun_sets = <<>>
    /\ ufuns = <<>>
    /\ result = <<>>
    /\ exc = None
    /\ tpc = "idle"
    /\ targs = NoTArgs
    /\ path = <<None>>
    /\ generator_calls = <<>>
    /\ cartesian_call = <<>>

\* ------------------------------------------------------- make_scenarios
\* entry of make_scenarios(n_scenarios, n_outcomes, reserved_ranges=...)
Enter(a) ==
    /\ pc' = "onein"
    /\ args' = a
    /\ gen0' = gen
    /\ draws' = <<>>
    /\ UNCHANGED <<gen, n, issues, ufun_sets, ufuns, result, exc>>

make_scenarios ==
    /\ pc = "idle" /\ tpc = "idle"
    /\ \E ns \in NScenariosValues, no \in NOutcomesValues, rr \in ReservedRangesValues :
           Enter([n_scenarios |-> ns, n_outcomes |-> no, reserved_ranges |-> rr])
    /\ UNCHANGED tvars

\* onein draws only for a tuple with different endpoints (lines 46-49)
onein_draws_always(x) == x.kind = "tuple"
onein_draws(x) == x.kind = "tuple" /\ x.lo # x.hi

\* the value onein returns, g the generator state before the call
onein(x, g) == IF onein_draws(x) THEN randint(x.lo, x.hi, g) ELSE x.lo

\* line 61: n = onein(n_outcomes); random.randint raises ValueError on an
\* empty range
ResolveN ==
    /\ pc = "onein"
    /\ LET x == args.n_outcomes
       IN IF onein_draws(x) /\ x.lo > x.hi
          THEN /\ pc' = "raised"
               /\ exc' = "ValueError"
               /\ UNCHANGED <<gen, draws, n>>
          ELSE /\ n' = onein(x, gen)
               /\ gen' = IF onein_draws(x) THEN random_advance(gen) ELSE gen
               /\ draws' = IF onein_draws(x)
                           THEN Append(draws, [for |-> <<"n", 0>>,
                                               value |-> random_advance(gen)])
                           ELSE draws
               /\ pc' = "issues"
               /\ exc' = exc
    /\ UNCHANGED <<args, gen0, issues, ufun_sets, ufuns, result>>
    /\ UNCHANGED tvars

\* lines 62-64: the labels of the single issue, in index order
make_issue(m) == [j \in 1 .. m |-> Label(j - 1, m)]

MakeIssues ==
    /\ pc = "issues"
    /\ issues' = make_issue(n)
    /\ pc' = "ufuns"
    /\ UNCHANGED <<args, gen, gen0, draws, n, ufun_sets, ufuns, result, exc>>
    /\ UNCHANGED tvars

unames == <<"First", "Second">>
\* zip(("First", "Second"), reserved_ranges) stops at the shorter one
NRoles(rr) == Min(2, Len(rr))

\* line 71: the table entry of label `lab` for role index k (0 or 1)
TableValue_n(lab, k, m) == FDiv(ParseInt(Split(lab, "_")[k + 1]), m)
TableValue_swapped(lab, k, m) == FDiv(ParseInt(Split(lab, "_")[2 - k]), m - 1)
TableValue(lab, k, m) == FDiv(ParseInt(Split(lab, "_")[k + 1]), m - 1)

\* lines 69-74: the TableFun dictionary, keyed by label
TableFun(labels, k, m) ==
    [lab \in {labels[j] : j \in 1 .. Len(labels)} |-> TableValue(lab, k, m)]

\* line 77: r[0] + 1e-8 + random.random() * (r[1] - r[0] - 1e-8)
reserved_value(r, u) ==
    FAdd(FAdd(r[1], Eps), FMul(u, FSub(FSub(r[2], r[1]), Eps)))

\* lines 67-79: one utility function; i = Len(ufun_sets), k = Len(ufuns).
\* The values table is evaluated before the reserved value, so a division
\* by zero (n = 1) is raised before the generator is touched.
MakeUfun ==
    /\ pc = "ufuns"
    /\ Len(ufun_sets) < args.n_scenarios
    /\ Len(ufuns) < NRoles(args.reserved_ranges)
    /\ LET i == Len(ufun_sets)
           k == Len(ufuns)
           r == args.reserved_ranges[k + 1]
       IN IF n - 1 = 0
          THEN /\ pc' = "raised"
               /\ exc' = "ZeroDivisionError"
               /\ UNCHANGED <<gen, draws, ufuns>>
          ELSE /\ ufuns' = Append(ufuns,
                      [name |-> <<unames[k + 1], i>>,
                       values |-> TableFun(issues, k, n),
                       reserved_value |-> reserved_value(r, random_random(gen)),
                       outcome_space |-> [name |-> <<"DivideTyePie", i>>,
                                          issues |-> issues]])
               /\ gen' = random_advance(gen)
               /\ draws' = Append(draws, [for |-> <<unames[k + 1], i>>,
                                          value |-> random_advance(gen)])
               /\ UNCHANGED <<pc, exc>>
    /\ UNCHANGED <<args, gen0, n, issues, ufun_sets, result>>
    /\ UNCHANGED tvars

\* line 66: tuple(...) of scenario i is complete
CloseTuple ==
    /\ pc = "ufuns"
    /\ Len(ufun_sets) < args.n_scenarios
    /\ Len(ufuns) = NRoles(args.reserved_ranges)
    /\ ufun_sets' = Append(ufun_sets, ufuns)
    /\ ufuns' = <<>>
    /\ UNCHANGED <<pc, args, gen, gen0, draws, n, issues, result, exc>>
    /\ UNCHANGED tvars

\* lines 85-91: one Scenario per tuple; ufuns[0] of an empty tuple raises
Return ==
    /\ pc = "ufuns"
    /\ Len(ufun_sets) = args.n_scenarios
    /\ IF \E j \in 1 .. Len(ufun_sets) : Len(ufun_sets[j]) = 0
       THEN /\ pc' = "raised"
            /\ exc' = "IndexError"
            /\ UNCHANGED result
       ELSE /\ result' = [j \in 1 .. Len(ufun_sets) |->
                             [outcome_space |-> ufun_sets[j][1].outcome_space,
                              ufuns |-> ufun_sets[j]]]
            /\ pc' = "done"
            /\ UNCHANGED exc
    /\ UNCHANGED <<args, gen, gen0, draws, n, issues, ufun_sets, ufuns>>
    /\ UNCHANGED tvars

\* ---------------------------------------------------- anl2024_tournament
\* entry of anl2024_tournament(...); scenario_generator is make_scenarios
anl2024_tournament ==
    /\ pc = "idle" /\ tpc = "idle"
    /\ \E ns \in NScenariosValues, no \in NOutcomesValues,
          nl \in BOOLEAN, bp \in BasePathValues, nm \in NameValues :
           targs' = [n_scenarios |-> ns, n_outcomes |-> no, nologs |-> nl,
                     base_path |-> bp, name |-> nm]
    /\ tpc' = "path"
    /\ UNCHANGED <<path, generator_calls, cartesian_call>>
    /\ UNCHANGED msvars

\* `name if name else ...`: None and the empty string are both false
Truthy(nm) == nm # None /\ nm # ""

\* lines 148-153, u the name unique_name("anl") would return
SelectPath_keeps_empty(nl, bp, nm, u) ==
    IF nl THEN <<None>>
    ELSE IF bp # <<None>> THEN Append(bp, IF nm # None THEN nm ELSE u)
    ELSE Append(DEFAULT_TOURNAMENT_PATH, IF nm # None THEN nm ELSE u)
SelectPath(nl, bp, nm, u) ==
    IF nl THEN <<None>>
    ELSE IF bp # <<None>> THEN Append(bp, IF Truthy(nm) THEN nm ELSE u)
    ELSE Append(DEFAULT_TOURNAMENT_PATH, IF Truthy(nm) THEN nm ELSE u)

\* unique_name is called only where the code reaches it
CallsUniqueName(nl, nm) == ~nl /\ ~Truthy(nm)

ChoosePath ==
    /\ tpc = "path"
    /\ \E u \in UniqueNames :
           /\ CallsUniqueName(targs.nologs, targs.name) \/ u = "anl.u1"
           /\ path' = SelectPath(targs.nologs, targs.base_path, targs.name, u)
    /\ tpc' = "generate"
    /\ UNCHANGED <<targs, generator_calls, cartesian_call>>
    /\ UNCHANGED msvars

\* line 156: scenario_generator(n_scenarios, n_outcomes), two positional
\* arguments and no keyword, so reserved_ranges takes its default
CallGenerator ==
    /\ tpc = "generate"
    /\ generator_calls' = Append(generator_calls,
           [positional |-> <<targs.n_scenarios, targs.n_outcomes>>, keywords |-> {}])
    /\ Enter([n_scenarios |-> targs.n_scenarios, n_outcomes |-> targs.n_outcomes,
              reserved_ranges |-> DefaultReservedRanges])
    /\ tpc' = "generating"
    /\ UNCHANGED <<targs, path, cartesian_call>>

\* lines 154-174: the scenarios and the path are handed to cartesian_tournament
CartesianTournament ==
    /\ tpc = "generating" /\ pc = "done"
    /\ cartesian_call' = <<[scenarios |-> result, path |-> path]>>
    /\ tpc' = "done"
    /\ UNCHANGED <<targs, path, generator_calls>>
    /\ UNCHANGED msvars

\* an exception of the generator leaves anl2024_tournament
Propagate ==
    /\ tpc = "generating" /\ pc = "raised"
    /\ tpc' = "raised"
    /\ UNCHANGED <<targs, path, generator_calls, cartesian_call>>
    /\ UNCHANGED msvars

Next ==
    \/ make_scenarios
    \/ ResolveN
    \/ MakeIssues
    \/ MakeUfun
    \/ CloseTuple
    \/ Return
    \/ anl2024_tournament
    \/ ChoosePath
    \/ CallGenerator
    \/ CartesianTournament
    \/ Propagate

Spec == Init /\ [][Next]_vars

\* ------------------------------------------------------------ properties
\* the tuples of utility functions built so far, the unfinished one last
Tuples == ufun_sets \o <<ufuns>>
\* the value utility function u gives the outcome labelled lab (one issue,
\* so the table entry itself)
Value(u, lab) == u.values[lab]
ValidRange(r) == r[1] < r[2] /\ r[2] - r[1] > Eps

\* C1: in every returned scenario, for every outcome, the values the First
\* and the Second utility function give it add up to 1 (in the source's
\* float arithmetic).
C1_ZeroSum ==
    pc = "done" =>
        \A j \in 1 .. Len(result) :
            Len(result[j].ufuns) = 2 =>
                \A o \in 1 .. Len(result[j].outcome_space.issues) :
                    LET lab == result[j].outcome_space.issues[o]
                    IN FAdd(Value(result[j].ufuns[1], lab),
                            Value(result[j].ufuns[2], lab)) = One

\* a returned batch whose tables hold values the floats cannot represent
\* exactly (tenths)
C1_Witness ==
    /\ pc = "done" /\ n > 3 /\ Len(result) >= 2
    /\ Len(result[1].ufuns) = 2
    /\ \E o \in 1 .. n :
           Value(result[1].ufuns[1], issues[o]) * (n - 1) # (o - 1) * One

\* C2: every reserved value sampled for a role whose range has low < high
\* and high - low > epsilon lies strictly inside the range.
C2_ReservedStrictlyInside ==
    \A j \in 1 .. Len(Tuples) : \A k \in 1 .. Len(Tuples[j]) :
        LET r == args.reserved_ranges[k]
            v == Tuples[j][k].reserved_value
        IN ValidRange(r) => r[1] < v /\ v < r[2]

\* C3: every scenario of a returned batch has exactly n outcomes, n being the
\* fixed count, or one value of the inclusive range drawn at most once.
C3_SharedOutcomeCount ==
    pc = "done" =>
        /\ \A j \in 1 .. Len(result) :
               Len(result[j].outcome_space.issues) = n
        /\ args.n_outcomes.kind = "int" => n = args.n_outcomes.lo
        /\ args.n_outcomes.kind = "tuple" =>
               args.n_outcomes.lo <= n /\ n <= args.n_outcomes.hi
        /\ Cardinality({d \in 1 .. Len(draws) : draws[d].for[1] = "n"}) <= 1
        /\ \A d \in 2 .. Len(draws) : draws[d].for[1] # "n"

\* a batch of two scenarios whose count was drawn from a proper range
C3_Witness ==
    /\ pc = "done" /\ Len(result) >= 2
    /\ args.n_outcomes.kind = "tuple"
    /\ args.n_outcomes.lo < args.n_outcomes.hi
    /\ n = args.n_outcomes.hi
    /\ Len(draws) > 0 /\ draws[1].for[1] = "n"

\* the configuration the design calls valid
ValidConfiguration ==
    /\ Len(args.reserved_ranges) = 2
    /\ \A k \in 1 .. Len(args.reserved_ranges) : ValidRange(args.reserved_ranges[k])
    /\ n >= 2

\* C4: make_scenarios returns only for a valid configuration, and once n is
\* resolved (n >= 1) an invalid configuration fails with ConfigurationError.
C4_ConfigurationError ==
    /\ pc = "done" => ValidConfiguration
    /\ (pc = "raised" /\ n >= 1 /\ ~ValidConfiguration) => exc = "ConfigurationError"

\* C5: a returned scenario has the n labels i_(n-1-i) in index order, and
\* its First and Second tables map label i to i/(n-1) and (n-1-i)/(n-1);
\* for n = 3 these are 0_2, 1_1, 2_0 with [0, 0.5, 1] and [1, 0.5, 0].
C5_OutcomesAndTables ==
    pc = "done" =>
        \A j \in 1 .. Len(result) :
            LET labs == result[j].outcome_space.issues
                us == result[j].ufuns
            IN /\ Len(labs) = n
               /\ \A o \in 1 .. n :
                      labs[o] = IntToStr(o - 1) \o <<"_">> \o IntToStr(n - o)
               /\ \A o \in 1 .. n : \A p \in 1 .. n : o # p => labs[o] # labs[p]
               /\ \A k \in 1 .. Len(us) :
                      /\ DOMAIN us[k].values = {labs[o] : o \in 1 .. n}
                      /\ \A o \in 1 .. n :
                             us[k].values[labs[o]] =
                                 FDiv(IF k = 1 THEN o - 1 ELSE n - o, n - 1)
               /\ n = 3 =>
                      /\ labs = <<(<<"0", "_", "2">>), (<<"1", "_", "1">>),
                                  (<<"2", "_", "0">>)>>
                      /\ \A k \in 1 .. Len(us) :
                             [o \in 1 .. 3 |-> us[k].values[labs[o]]] =
                                 IF k = 1 THEN <<0, One \div 2, One>>
                                 ELSE <<One, One \div 2, 0>>

\* a returned three-outcome scenario with both roles
C5_Witness ==
    /\ pc = "done" /\ n = 3 /\ Len(result) >= 1
    /\ Len(result[1].ufuns) = 2

\* C9: the path is None under nologs, else base_path (or the default path)
\* joined with the name, or with a unique name when the name is None or
\* empty; the generator is called exactly once, with (n_scenarios,
\* n_outcomes) alone, and the path reaches cartesian_tournament unchanged.
C9_PathAndGenerator ==
    /\ tpc \in {"idle", "path", "generate"} => generator_calls = <<>>
    /\ tpc \in {"generating", "done", "raised"} =>
           /\ generator_calls =
                  <<[positional |-> <<targs.n_scenarios, targs.n_outcomes>>,
                     keywords |-> {}]>>
           /\ args.reserved_ranges = DefaultReservedRanges
    /\ tpc \in {"generate", "generating", "done", "raised"} =>
           IF targs.nologs THEN path = <<None>>
           ELSE LET base == IF targs.base_path = <<None>>
                            THEN DEFAULT_TOURNAMENT_PATH ELSE targs.base_path
                IN /\ Len(path) = Len(base) + 1
                   /\ SubSeq(path, 1, Len(base)) = base
                   /\ targs.name \notin {None, ""} => path[Len(path)] = targs.name
                   /\ targs.name \in {None, ""} => path[Len(path)] \in UniqueNames
    /\ tpc = "done" => cartesian_call = <<[scenarios |-> result, path |-> path]>>

\* a finished tournament call with logs, no base path and an empty name
C9_Witness ==
    /\ tpc = "done" /\ ~targs.nologs
    /\ targs.name = "" /\ targs.base_path = <<None>>
    /\ Len(generator_calls) = 1

\* the number of draws onein makes for the call's n_outcomes
NDraws == IF args.n_outcomes.kind = "tuple" /\ args.n_outcomes.lo # args.n_outcomes.hi
          THEN 1 ELSE 0

====
